---- MODULE Spec2Model ----
(***************************************************************************)
(* Model of src/main.py: the file-discovery, loading and aggregation       *)
(* pipeline of the polar-plant EC dashboard.                               *)
(*                                                                         *)
(* Strings are sequences of Unicode code points (integers), so that        *)
(* unicodedata.normalize is modelled by what it does (canonical            *)
(* decomposition and canonical composition) and not as the identity.       *)
(***************************************************************************)
EXTENDS Integers, Sequences, FiniteSets, TLC

VARIABLES
    dir,            \* DATA_DIR: the entries in directory iteration order
    target_name,    \* argument of the find_file_by_name call under study
    found,          \* its return value
    pc,             \* position of the script
    edits,          \* number of changes made to the data directory before the run
    runs,           \* number of script runs started in this process
    cache,          \* st.cache_data: the stored results of the two loaders
    env_data,       \* module-level env_data
    growth_data,    \* module-level growth_data
    school_option,  \* the sidebar selection
    rendered,       \* the elements sent to the page in this run, in order
    info_df,        \* tab 1: the per-school table
    total_count,    \* tab 1: the specimen count
    ec_weight,      \* tab 3: mean fresh weight per EC
    best_ec         \* tab 3: the EC of the largest mean

vars == <<dir, target_name, found, pc, edits, runs, cache, env_data, growth_data,
          school_option, rendered, info_df, total_count, ec_weight, best_ec>>

(***************************************************************************)
(* Python values                                                           *)
(***************************************************************************)
None == [tag |-> "None"]
Unset == [tag |-> "unset"]                   \* a name not bound yet
Float(v) == [tag |-> "float", v |-> v]
Dict(items) == [tag |-> "dict", items |-> items]   \* items in insertion order
Raised(exc) == [tag |-> "raised", exc |-> exc]

IsDict(d) == d.tag = "dict"
HasKey(d, k) == \E i \in 1..Len(d.items) : d.items[i].key = k
Lookup(d, k) == d.items[CHOOSE i \in 1..Len(d.items) : d.items[i].key = k].val
DictGet(d, k) == IF HasKey(d, k) THEN Lookup(d, k) ELSE None

(***************************************************************************)
(* unicodedata.normalize, on the code points the model uses.               *)
(* Hangul syllables decompose and compose arithmetically (Unicode 3.12);   *)
(* U+00C5 is the primary composite of U+0041 U+030A; U+212B is a singleton *)
(* whose canonical decomposition is U+00C5, so it is in neither form.      *)
(***************************************************************************)
SBase == 44032
LBase == 4352
VBase == 4449
TBase == 4519
LCount == 19
VCount == 21
TCount == 28
NCount == VCount * TCount
SCount == LCount * NCount

LatinA == 65
CombRing == 778
ARing == 197
Angstrom == 8491

IsSyllable(c) == c >= SBase /\ c < SBase + SCount

\* full canonical decomposition of one code point
Decompose(c) ==
    IF c = ARing \/ c = Angstrom THEN <<LatinA, CombRing>>
    ELSE IF IsSyllable(c) THEN
        LET SIndex == c - SBase
            L == LBase + (SIndex \div NCount)
            V == VBase + ((SIndex % NCount) \div TCount)
            T == TBase + (SIndex % TCount)
        IN  IF T = TBase THEN <<L, V>> ELSE <<L, V, T>>
    ELSE <<c>>

\* the primary composite of a starter and the code point after it, 0 if none
Composite(a, b) ==
    IF a = LatinA /\ b = CombRing THEN ARing
    ELSE IF a >= LBase /\ a < LBase + LCount /\ b >= VBase /\ b < VBase + VCount
        THEN SBase + ((a - LBase) * VCount + (b - VBase)) * TCount
    ELSE IF IsSyllable(a) /\ (a - SBase) % TCount = 0
            /\ b > TBase /\ b < TBase + TCount
        THEN a + (b - TBase)
    ELSE 0

\* the decomposition of s from position i on
RECURSIVE DecomposeFrom(_, _)
DecomposeFrom(s, i) ==
    IF i > Len(s) THEN <<>> ELSE Decompose(s[i]) \o DecomposeFrom(s, i + 1)

NFD(s) == DecomposeFrom(s, 1)

\* canonical composition of a decomposed string from position i on; the only
\* combining mark of the model has class 230, so a mark composes with the code
\* point just before it or is blocked
RECURSIVE ComposeFrom(_, _, _)
ComposeFrom(out, s, i) ==
    IF i > Len(s) THEN out
    ELSE LET p == IF out = <<>> THEN 0 ELSE Composite(out[Len(out)], s[i])
         IN  IF p # 0
             THEN ComposeFrom([out EXCEPT ![Len(out)] = p], s, i + 1)
             ELSE ComposeFrom(Append(out, s[i]), s, i + 1)

NFC(s) == ComposeFrom(<<>>, NFD(s), 1)

(***************************************************************************)
(* find_file_by_name (main.py 53-62).  A directory is the sequence of its  *)
(* entries in iteration order; the result is the position of the returned  *)
(* entry, 0 for None.                                                      *)
(***************************************************************************)
\* mutant: the candidate's name is compared as stored, against one form
NameMatches_raw(name, target_nfc, target_nfd) == name = target_nfc

\* mutant: a name that only starts with the target is accepted
NameMatches_prefix(name, target_nfc, target_nfd) ==
    LET name_nfd == NFD(name)
    IN  /\ Len(name_nfd) >= Len(target_nfd)
        /\ SubSeq(name_nfd, 1, Len(target_nfd)) = target_nfd

NameMatches(name, target_nfc, target_nfd) ==
    LET name_nfc == NFC(name)
        name_nfd == NFD(name)
    IN  name_nfc = target_nfc \/ name_nfd = target_nfd

RECURSIVE ScanFrom(_, _, _, _)
ScanFrom(directory, target_nfc, target_nfd, i) ==
    IF i > Len(directory) THEN 0
    ELSE IF NameMatches(directory[i].name, target_nfc, target_nfd) THEN i
    ELSE ScanFrom(directory, target_nfc, target_nfd, i + 1)

find_file_by_name(directory, target) ==
    LET target_nfc == NFC(target)
        target_nfd == NFD(target)
    IN  ScanFrom(directory, target_nfc, target_nfd, 1)

(***************************************************************************)
(* Constants of the script (main.py 34-41, 71, 83)                         *)
(***************************************************************************)
Songdo == <<49569, 46020, 44256>>
Haneul == <<54616, 45720, 44256>>
Ara == <<50500, 46972, 44256>>
Dongsan == <<46041, 49328, 44256>>

SCHOOL_EC ==
    Dict(<<[key |-> Songdo, val |-> Float(1)], [key |-> Haneul, val |-> Float(2)],
           [key |-> Ara, val |-> Float(4)], [key |-> Dongsan, val |-> Float(8)]>>)

\* "_환경데이터.csv"
EnvSuffix == <<95, 54872, 44221, 45936, 51060, 53552, 46, 99, 115, 118>>
\* "4개교_생육결과데이터.xlsx"
xlsx_name ==
    <<52, 44060, 44368, 95, 49373, 50977, 44208, 44284, 45936, 51060, 53552,
      46, 120, 108, 115, 120>>

(***************************************************************************)
(* Files.  A CSV file holds a header and rows; a workbook holds sheets,    *)
(* each a name and rows.                                                   *)
(***************************************************************************)
Csv(rows) == [tag |-> "csv", rows |-> rows]
Xlsx(sheets) == [tag |-> "xlsx", sheets |-> sheets]

read_csv(file) == file.body.rows
sheet_names(file) == [j \in 1..Len(file.body.sheets) |-> file.body.sheets[j].name]
parse(file, j) == file.body.sheets[j].rows

(***************************************************************************)
(* load_env_data (main.py 68-79), the body under the cache decorator       *)
(***************************************************************************)
StampSchool(df, school) ==
    [r \in 1..Len(df) |-> [time |-> df[r].time, school |-> school]]

RECURSIVE LoadEnvFrom(_, _, _, _)
LoadEnvFrom(directory, school_ec, i, env) ==
    IF i > Len(school_ec.items) THEN Dict(env)
    ELSE LET school == school_ec.items[i].key
             filename == school \o EnvSuffix
             at == find_file_by_name(directory, filename)
         IN  IF at = 0 THEN None
             ELSE LoadEnvFrom(directory, school_ec, i + 1,
                      Append(env, [key |-> school,
                                   val |-> StampSchool(read_csv(directory[at]), school)]))

\* mutant: a school whose file is missing is skipped and the rest is returned
RECURSIVE LoadEnvSkipping(_, _, _, _)
LoadEnvSkipping(directory, school_ec, i, env) ==
    IF i > Len(school_ec.items) THEN Dict(env)
    ELSE LET school == school_ec.items[i].key
             at == find_file_by_name(directory, school \o EnvSuffix)
         IN  IF at = 0 THEN LoadEnvSkipping(directory, school_ec, i + 1, env)
             ELSE LoadEnvSkipping(directory, school_ec, i + 1,
                      Append(env, [key |-> school,
                                   val |-> StampSchool(read_csv(directory[at]), school)]))

load_env_data_partial(directory, school_ec) ==
    LoadEnvSkipping(directory, school_ec, 1, <<>>)

load_env_data(directory, school_ec) == LoadEnvFrom(directory, school_ec, 1, <<>>)

(***************************************************************************)
(* load_growth_data (main.py 82-96)                                        *)
(***************************************************************************)
\* mutant: SCHOOL_EC.get(sheet, 0.0), a default in place of the null tag
StampGrowth_default(df, sheet, school_ec) ==
    [r \in 1..Len(df) |->
        [weight |-> df[r].weight, school |-> sheet,
         EC |-> IF HasKey(school_ec, sheet) THEN Lookup(school_ec, sheet) ELSE Float(0)]]

StampGrowth(df, sheet, school_ec) ==
    [r \in 1..Len(df) |->
        [weight |-> df[r].weight, school |-> sheet, EC |-> DictGet(school_ec, sheet)]]

ParseSheets(file, school_ec) ==
    [j \in 1..Len(file.body.sheets) |->
        [key |-> sheet_names(file)[j],
         val |-> StampGrowth(parse(file, j), sheet_names(file)[j], school_ec)]]

load_growth_data(directory, school_ec) ==
    LET at == find_file_by_name(directory, xlsx_name)
    IN  IF at = 0 THEN None
        ELSE Dict(ParseSheets(directory[at], school_ec))

\* @st.cache_data (main.py 67, 81): the stored result when there is one
cache_data(slot, computed) == IF slot = Unset THEN computed ELSE slot

(***************************************************************************)
(* Aggregation of tab 3 (main.py 231-234)                                  *)
(***************************************************************************)
RECURSIVE concat(_)
concat(tables) ==
    IF tables = <<>> THEN <<>> ELSE Head(tables).val \o concat(Tail(tables))

RECURSIVE GCD(_, _)
GCD(a, b) == IF b = 0 THEN a ELSE GCD(b, a % b)

\* a mean as a fraction in lowest terms
Mean(total, count) ==
    LET g == GCD(total, count) IN [num |-> total \div g, den |-> count \div g]

RECURSIVE SumWeight(_)
SumWeight(rows) == IF rows = <<>> THEN 0 ELSE Head(rows).weight + SumWeight(Tail(rows))

\* groupby keeps the rows whose key is not null
GroupKeys(rows) == {rows[r].EC.v : r \in {q \in 1..Len(rows) : rows[q].EC # None}}

\* mutant: the records of one school stand for the concentration, not the pool
RowsOf_one_school(rows, c) ==
    LET pool == SelectSeq(rows, LAMBDA row : row.EC = Float(c))
    IN  SelectSeq(pool, LAMBDA row : row.school = pool[1].school)

RowsOf(rows, c) == SelectSeq(rows, LAMBDA row : row.EC = Float(c))

\* the keys of a groupby in increasing order
RECURSIVE SortedKeys(_)
SortedKeys(ks) ==
    IF ks = {} THEN <<>>
    ELSE LET least == CHOOSE k \in ks : \A other \in ks : k <= other
         IN  <<least>> \o SortedKeys(ks \ {least})

\* growth_all.groupby("EC")["생중량(g)"].mean().reset_index()
condition_means(growth_all) ==
    LET ks == SortedKeys(GroupKeys(growth_all))
    IN  [i \in 1..Len(ks) |->
            [EC |-> ks[i],
             mean |-> Mean(SumWeight(RowsOf(growth_all, ks[i])),
                           Len(RowsOf(growth_all, ks[i])))]]

MeanLess(a, b) == a.num * b.den < b.num * a.den

\* Series.idxmax: the first position of the largest value
idxmax(means) ==
    CHOOSE i \in 1..Len(means) :
        /\ \A j \in 1..Len(means) : ~MeanLess(means[i].mean, means[j].mean)
        /\ \A j \in 1..(i - 1) : MeanLess(means[j].mean, means[i].mean)

best_condition(means) ==
    IF means = <<>> THEN Raised("ValueError") ELSE Float(means[idxmax(means)].EC)

(***************************************************************************)
(* The data directory.  The script reads whatever is in DATA_DIR when it   *)
(* starts: the model starts from a complete directory and lets up to       *)
(* MaxEdits changes happen to it before the first run.                     *)
(***************************************************************************)
MaxEdits == 2
MaxRuns == 2

AppendWeights == {3, 7}
\* "Sheet1", a sheet that is no configured school
ExtraSheets == {<<83, 104, 101, 101, 116, 49>>}

EnvFile(school) == [name |-> school \o EnvSuffix, body |-> Csv(<<[time |-> 1]>>)]
SheetOf(school) == [name |-> school, rows |-> <<[weight |-> 1]>>]

DataDir0 ==
    <<EnvFile(Songdo), EnvFile(Haneul), EnvFile(Ara), EnvFile(Dongsan),
      [name |-> xlsx_name,
       body |-> Xlsx(<<SheetOf(Songdo), SheetOf(Haneul), SheetOf(Ara), SheetOf(Dongsan)>>)]>>

Without(s, i) == SubSeq(s, 1, i - 1) \o SubSeq(s, i + 1, Len(s))

Editing == pc = "setup" /\ edits < MaxEdits
Workbooks == {i \in 1..Len(dir) : dir[i].body.tag = "xlsx"}

Edited(d) ==
    /\ dir' = d
    /\ edits' = edits + 1
    /\ UNCHANGED <<target_name, found, pc, runs, cache, env_data, growth_data,
                   school_option, rendered, info_df, total_count, ec_weight, best_ec>>

RemoveFile(i) ==
    /\ Editing
    /\ Edited(Without(dir, i))

\* the name is stored in decomposed form, as some file systems do
RenameFile(i) ==
    /\ Editing
    /\ dir[i].name # NFD(dir[i].name)
    /\ Edited([dir EXCEPT ![i].name = NFD(@)])

\* a CSV file left with its header alone, a workbook left with no sheet
TruncateFile(i) ==
    /\ Editing
    /\ \/ /\ dir[i].body.tag = "csv"
          /\ dir[i].body.rows # <<>>
          /\ Edited([dir EXCEPT ![i].body.rows = <<>>])
       \/ /\ dir[i].body.tag = "xlsx"
          /\ dir[i].body.sheets # <<>>
          /\ Edited([dir EXCEPT ![i].body.sheets = <<>>])

RemoveSheet(i, j) ==
    /\ Editing
    /\ Edited([dir EXCEPT ![i].body.sheets = Without(@, j)])

AddSheet(i, nm) ==
    /\ Editing
    /\ \A j \in 1..Len(dir[i].body.sheets) : dir[i].body.sheets[j].name # nm
    /\ Edited([dir EXCEPT ![i].body.sheets = Append(@, [name |-> nm, rows |-> <<>>])])

TruncateSheet(i, j) ==
    /\ Editing
    /\ dir[i].body.sheets[j].rows # <<>>
    /\ Edited([dir EXCEPT ![i].body.sheets[j].rows = <<>>])

AppendRow(i, j, w) ==
    /\ Editing
    /\ Edited([dir EXCEPT ![i].body.sheets[j].rows = Append(@, [weight |-> w])])

(***************************************************************************)
(* The script, top to bottom (main.py 14-299)                              *)
(***************************************************************************)
Dashboard == {"title", "sidebar", "tabs", "tab1", "tab2", "tab3"}

\* set_page_config and the font CSS (main.py 14-29), then the spinner opens
StartRun ==
    /\ pc = "setup"
    /\ pc' = "load_env"
    /\ runs' = 1
    /\ rendered' = <<"css">>
    /\ UNCHANGED <<dir, target_name, found, edits, cache, env_data, growth_data,
                   school_option, info_df, total_count, ec_weight, best_ec>>

\* env_data = load_env_data()  (main.py 102)
LoadEnv ==
    /\ pc = "load_env"
    /\ env_data' = cache_data(cache.env, load_env_data(dir, SCHOOL_EC))
    /\ cache' = [cache EXCEPT !.env = env_data']
    /\ rendered' = IF env_data' = None THEN Append(rendered, "error_env") ELSE rendered
    /\ pc' = "load_growth"
    /\ UNCHANGED <<dir, target_name, found, edits, runs, growth_data, school_option,
                   info_df, total_count, ec_weight, best_ec>>

\* growth_data = load_growth_data()  (main.py 103)
LoadGrowth ==
    /\ pc = "load_growth"
    /\ growth_data' = cache_data(cache.growth, load_growth_data(dir, SCHOOL_EC))
    /\ cache' = [cache EXCEPT !.growth = growth_data']
    /\ rendered' =
           IF growth_data' = None THEN Append(rendered, "error_growth") ELSE rendered
    /\ pc' = "check"
    /\ UNCHANGED <<dir, target_name, found, edits, runs, env_data, school_option,
                   info_df, total_count, ec_weight, best_ec>>

\* if env_data is None or growth_data is None: st.stop()  (main.py 105-106)
\* mutant: "and" in place of "or"
LoadFailed_both == env_data = None /\ growth_data = None

\* mutant: "not env_data or not growth_data", which an empty dict satisfies too
LoadFailed_falsy ==
    \/ env_data = None \/ (IsDict(env_data) /\ env_data.items = <<>>)
    \/ growth_data = None \/ (IsDict(growth_data) /\ growth_data.items = <<>>)

LoadFailed == env_data = None \/ growth_data = None

Check ==
    /\ pc = "check"
    /\ pc' = IF LoadFailed THEN "stopped" ELSE "title"
    /\ UNCHANGED <<dir, target_name, found, edits, runs, cache, env_data, growth_data,
                   school_option, rendered, info_df, total_count, ec_weight, best_ec>>

\* st.title  (main.py 111)
Title ==
    /\ pc = "title"
    /\ rendered' = Append(rendered, "title")
    /\ pc' = "sidebar"
    /\ UNCHANGED <<dir, target_name, found, edits, runs, cache, env_data, growth_data,
                   school_option, info_df, total_count, ec_weight, best_ec>>

\* "전체"
All == <<51204, 52404>>
Options == {All} \cup {SCHOOL_EC.items[i].key : i \in 1..Len(SCHOOL_EC.items)}

\* st.sidebar.selectbox  (main.py 116-119)
Sidebar(opt) ==
    /\ pc = "sidebar"
    /\ school_option' = opt
    /\ rendered' = Append(rendered, "sidebar")
    /\ pc' = "tabs"
    /\ UNCHANGED <<dir, target_name, found, edits, runs, cache, env_data, growth_data,
                   info_df, total_count, ec_weight, best_ec>>

\* st.tabs  (main.py 124)
Tabs ==
    /\ pc = "tabs"
    /\ rendered' = Append(rendered, "tabs")
    /\ pc' = "tab1"
    /\ UNCHANGED <<dir, target_name, found, edits, runs, cache, env_data, growth_data,
                   school_option, info_df, total_count, ec_weight, best_ec>>

RECURSIVE SumLen(_)
SumLen(items) == IF items = <<>> THEN 0 ELSE Len(Head(items).val) + SumLen(Tail(items))

\* info_df  (main.py 139-144): growth_data[s] for every configured school
InfoTable(growth, school_ec) ==
    IF ~IsDict(growth) THEN Raised("TypeError")
    ELSE IF \E i \in 1..Len(school_ec.items) : ~HasKey(growth, school_ec.items[i].key)
    THEN Raised("KeyError")
    ELSE [tag |-> "frame",
          rows |-> [i \in 1..Len(school_ec.items) |->
                      [school |-> school_ec.items[i].key,
                       EC |-> school_ec.items[i].val,
                       count |-> Len(Lookup(growth, school_ec.items[i].key))]]]

\* tab 1  (main.py 129-157)
Tab1 ==
    /\ pc = "tab1"
    /\ info_df' = InfoTable(growth_data, SCHOOL_EC)
    /\ IF info_df'.tag = "raised"
       THEN /\ pc' = "crashed"
            /\ rendered' = Append(rendered, "exception")
            /\ UNCHANGED total_count
       ELSE /\ pc' = "tab2"
            /\ rendered' = Append(rendered, "tab1")
            /\ total_count' = SumLen(growth_data.items)
    /\ UNCHANGED <<dir, target_name, found, edits, runs, cache, env_data, growth_data,
                   school_option, ec_weight, best_ec>>

\* tab 2  (main.py 162-223): env_data[school_option] when a school is selected
Tab2 ==
    /\ pc = "tab2"
    /\ IF ~IsDict(env_data) \/ (school_option # All /\ ~HasKey(env_data, school_option))
       THEN /\ pc' = "crashed"
            /\ rendered' = Append(rendered, "exception")
       ELSE /\ pc' = "tab3"
            /\ rendered' = Append(rendered, "tab2")
    /\ UNCHANGED <<dir, target_name, found, edits, runs, cache, env_data, growth_data,
                   school_option, info_df, total_count, ec_weight, best_ec>>

\* tab 3  (main.py 228-299)
Tab3 ==
    /\ pc = "tab3"
    /\ ec_weight' = condition_means(concat(growth_data.items))
    /\ best_ec' = best_condition(ec_weight')
    /\ IF best_ec' = Raised("ValueError")
       THEN /\ pc' = "crashed"
            /\ rendered' = Append(rendered, "exception")
       ELSE /\ pc' = "done"
            /\ rendered' = Append(rendered, "tab3")
    /\ UNCHANGED <<dir, target_name, found, edits, runs, cache, env_data, growth_data,
                   school_option, info_df, total_count>>

\* a user interaction runs the script again in the same process: the
\* module-level names are bound afresh, the cache is kept
Rerun ==
    /\ pc \in {"stopped", "crashed", "done"}
    /\ runs < MaxRuns
    /\ runs' = runs + 1
    /\ pc' = "load_env"
    /\ rendered' = <<"css">>
    /\ env_data' = Unset
    /\ growth_data' = Unset
    /\ school_option' = Unset
    /\ info_df' = Unset
    /\ total_count' = Unset
    /\ ec_weight' = Unset
    /\ best_ec' = Unset
    /\ UNCHANGED <<dir, target_name, found, edits, cache>>

\* the data directory is put right while the process lives on
Repair ==
    /\ pc \in {"stopped", "crashed", "done"}
    /\ dir # DataDir0
    /\ dir' = DataDir0
    /\ UNCHANGED <<target_name, found, pc, edits, runs, cache, env_data, growth_data,
                   school_option, rendered, info_df, total_count, ec_weight, best_ec>>

Init ==
    /\ dir = DataDir0
    /\ target_name = <<>>
    /\ found = Unset
    /\ pc = "setup"
    /\ edits = 0
    /\ runs = 0
    /\ cache = [env |-> Unset, growth |-> Unset]
    /\ env_data = Unset
    /\ growth_data = Unset
    /\ school_option = Unset
    /\ rendered = <<>>
    /\ info_df = Unset
    /\ total_count = Unset
    /\ ec_weight = Unset
    /\ best_ec = Unset

Next ==
    \/ \E i \in 1..Len(dir) : RemoveFile(i)
    \/ \E i \in 1..Len(dir) : RenameFile(i)
    \/ \E i \in 1..Len(dir) : TruncateFile(i)
    \/ \E i \in Workbooks : \E j \in 1..Len(dir[i].body.sheets) : RemoveSheet(i, j)
    \/ \E i \in Workbooks : \E j \in 1..Len(dir[i].body.sheets) : TruncateSheet(i, j)
    \/ \E i \in Workbooks : \E nm \in ExtraSheets : AddSheet(i, nm)
    \/ \E i \in Workbooks : \E j \in 1..Len(dir[i].body.sheets) :
            \E w \in AppendWeights : AppendRow(i, j, w)
    \/ StartRun
    \/ LoadEnv
    \/ LoadGrowth
    \/ Check
    \/ Title
    \/ \E opt \in Options : Sidebar(opt)
    \/ Tabs
    \/ Tab1
    \/ Tab2
    \/ Tab3
    \/ Rerun
    \/ Repair

Spec == Init /\ [][Next]_vars

(***************************************************************************)
(* SpecFind: find_file_by_name applied to every directory and target name  *)
(* that hold at most MaxCodePoints code points between them.               *)
(***************************************************************************)
MaxCodePoints == 4

\* U+1100 and U+1169, the jamo of U+ACE0, and U+ACE0 itself
HangulG == LBase
HangulO == VBase + 8
HangulGo == SBase + 8 * TCount

FindAlphabet == {LatinA, CombRing, ARing, Angstrom, HangulG, HangulO, HangulGo}

RECURSIVE StringsUpTo(_)
StringsUpTo(n) ==
    IF n <= 0 THEN {<<>>}
    ELSE LET shorter == StringsUpTo(n - 1)
         IN  shorter \cup {Append(s, c) : s \in shorter, c \in FindAlphabet}

NamesUpTo(n) == StringsUpTo(n) \ {<<>>}

\* the directories whose names hold at most n code points in all
RECURSIVE DirsWithin(_)
DirsWithin(n) ==
    {<<>>} \cup
    UNION {{<<[name |-> nm, body |-> None]>> \o d : d \in DirsWithin(n - Len(nm))} :
           nm \in NamesUpTo(n)}

\* the names of a directory differ
NoRepeat(d) == \A i, j \in 1..Len(d) : i # j => d[i].name # d[j].name

InitFind ==
    /\ target_name \in NamesUpTo(MaxCodePoints)
    /\ dir \in {d \in DirsWithin(MaxCodePoints - Len(target_name)) : NoRepeat(d)}
    /\ found = Unset
    /\ pc = "call"
    /\ edits = 0
    /\ runs = 0
    /\ cache = [env |-> Unset, growth |-> Unset]
    /\ env_data = Unset
    /\ growth_data = Unset
    /\ school_option = Unset
    /\ rendered = <<>>
    /\ info_df = Unset
    /\ total_count = Unset
    /\ ec_weight = Unset
    /\ best_ec = Unset

\* found is the position of the returned entry, 0 for None
Find ==
    /\ pc = "call"
    /\ found' = [tag |-> "entry", at |-> find_file_by_name(dir, target_name)]
    /\ pc' = "returned"
    /\ UNCHANGED <<dir, target_name, edits, runs, cache, env_data, growth_data,
                   school_option, rendered, info_df, total_count, ec_weight, best_ec>>

NextFind == Find

SpecFind == InitFind /\ [][NextFind]_vars

(***************************************************************************)
(* SpecAgg: load_growth_data and the aggregation of tab 3 applied to every *)
(* workbook of at most MaxRecords growth records, under the configuration  *)
(* {A: 1.0, B: 2.0, C: 2.0} in which two groups share a concentration.     *)
(***************************************************************************)
MaxRecords == 4

Weights == {1, 3, 5, 7}

GroupA == <<65>>
GroupB == <<66>>
GroupC == <<67>>

ScenarioEC ==
    Dict(<<[key |-> GroupA, val |-> Float(1)], [key |-> GroupB, val |-> Float(2)],
           [key |-> GroupC, val |-> Float(2)]>>)

\* the sheet lists of a workbook: the groups, alone or followed by "Sheet1"
AggSheets ==
    {<<GroupA, GroupB, GroupC>>,
     <<GroupA, GroupB, GroupC>> \o <<CHOOSE nm \in ExtraSheets : TRUE>>}

\* a workbook with the sheets of names, each without rows
EmptySheets(names) == [j \in 1..Len(names) |-> [name |-> names[j], rows |-> <<>>]]

RECURSIVE CountRows(_)
CountRows(sheets) ==
    IF sheets = <<>> THEN 0 ELSE Len(Head(sheets).rows) + CountRows(Tail(sheets))

InitAgg ==
    /\ dir \in {<<>>} \cup
               {<<[name |-> xlsx_name, body |-> Xlsx(EmptySheets(names))]>> :
                    names \in AggSheets}
    /\ target_name = <<>>
    /\ found = Unset
    /\ pc = "setup"
    /\ edits = 0
    /\ runs = 0
    /\ cache = [env |-> Unset, growth |-> Unset]
    /\ env_data = Unset
    /\ growth_data = Unset
    /\ school_option = Unset
    /\ rendered = <<>>
    /\ info_df = Unset
    /\ total_count = Unset
    /\ ec_weight = Unset
    /\ best_ec = Unset

\* a growth record is entered in a sheet of the workbook
AddRecord(i, j, w) ==
    /\ pc = "setup"
    /\ CountRows(dir[i].body.sheets) < MaxRecords
    /\ dir' = [dir EXCEPT ![i].body.sheets[j].rows = Append(@, [weight |-> w])]
    /\ UNCHANGED <<target_name, found, pc, edits, runs, cache, env_data, growth_data,
                   school_option, rendered, info_df, total_count, ec_weight, best_ec>>

\* load_growth_data under the scenario's configuration  (main.py 82-96)
LoadScenario ==
    /\ pc = "setup"
    /\ runs' = 1
    /\ growth_data' = load_growth_data(dir, ScenarioEC)
    /\ pc' = IF growth_data' = None THEN "stopped" ELSE "tab3"
    /\ UNCHANGED <<dir, target_name, found, edits, cache, env_data,
                   school_option, rendered, info_df, total_count, ec_weight, best_ec>>

\* growth_all, ec_weight and best_ec  (main.py 231-234)
Aggregate ==
    /\ pc = "tab3"
    /\ ec_weight' = condition_means(concat(growth_data.items))
    /\ best_ec' = best_condition(ec_weight')
    /\ pc' = IF best_ec' = Raised("ValueError") THEN "crashed" ELSE "done"
    /\ UNCHANGED <<dir, target_name, found, edits, runs, cache, env_data, growth_data,
                   school_option, rendered, info_df, total_count>>

NextAgg ==
    \/ \E i \in Workbooks : \E j \in 1..Len(dir[i].body.sheets) :
            \E w \in Weights : AddRecord(i, j, w)
    \/ LoadScenario
    \/ Aggregate

SpecAgg == InitAgg /\ [][NextAgg]_vars

(***************************************************************************)
(* Properties                                                              *)
(***************************************************************************)
SchoolKeys(school_ec) == {school_ec.items[i].key : i \in 1..Len(school_ec.items)}

\* a configured school whose environment file find_file_by_name does not find
EnvFileMissing ==
    \E school \in SchoolKeys(SCHOOL_EC) : find_file_by_name(dir, school \o EnvSuffix) = 0

WorkbookMissing == find_file_by_name(dir, xlsx_name) = 0

\* the loader bodies run in the first run of a process (later runs are served
\* from the cache); these are the states in which a body has just returned
EnvReturned == runs = 1 /\ pc = "load_growth"
GrowthReturned == runs = 1 /\ pc = "check"

\* C1: load_env_data is all-or-nothing: when the file of at least one
\* configured school is not found, the result is None, and so holds no table
\* of any other school, whichever files were found before the missing one.
C1_AllOrNothing == (EnvReturned /\ EnvFileMissing) => env_data = None

\* C1 witness: the load failed although the first school's file was found
\* and parsed before the missing one was reached
C1_Witness ==
    /\ EnvReturned
    /\ env_data = None
    /\ find_file_by_name(dir, Songdo \o EnvSuffix) # 0

IsNormalForm(s) == s = NFC(s) \/ s = NFD(s)

\* an entry that is the target in composed or in decomposed form
StoredForms == {i \in 1..Len(dir) : dir[i].name \in {NFC(target_name), NFD(target_name)}}

\* C2: when the directory holds the target's text in composed or in decomposed
\* form, find_file_by_name returns an entry, whether the target is passed in
\* composed or in decomposed form.
C2_FoundInEitherForm ==
    (pc = "returned" /\ IsNormalForm(target_name) /\ StoredForms # {}) => found.at # 0

\* C2 witness: a decomposed target is found in a directory that holds the
\* name in composed form alone
C2_Witness ==
    /\ pc = "returned"
    /\ target_name = NFD(target_name)
    /\ target_name # NFC(target_name)
    /\ StoredForms # {}
    /\ \A i \in 1..Len(dir) : dir[i].name # target_name
    /\ found.at # 0

Status(slot) == IF slot = Unset THEN "unloaded" ELSE IF slot = None THEN "load-failed" ELSE "loaded"

C3_Halted ==
    (env_data = None \/ growth_data = None) =>
        /\ pc \in {"load_growth", "check", "stopped"}
        /\ \A k \in 1..Len(rendered) : rendered[k] \notin Dashboard

C3_Step ==
    /\ Status(cache.env) # "unloaded" => cache'.env = cache.env
    /\ Status(cache.growth) # "unloaded" => cache'.growth = cache.growth

\* C3: a failed load is terminal: once a loader has returned None the run
\* halts with no dashboard element rendered, and a dataset that is loaded or
\* load-failed stays as it is for the rest of the process, reruns included.
C3_FailedLoadTerminal == []C3_Halted /\ [][C3_Step]_vars

\* C3 witness: the directory was put right after a failed load and the script
\* ran again, and the run still halted on the failure
C3_Witness ==
    /\ pc = "stopped"
    /\ runs = 2
    /\ dir = DataDir0
    /\ \A k \in 1..Len(rendered) : rendered[k] \notin Dashboard

TheWorkbook == dir[find_file_by_name(dir, xlsx_name)].body.sheets

\* C4: when the workbook is found load_growth_data returns one table per
\* sheet, in which every row carries the sheet's name and the concentration
\* SCHOOL_EC gives that name, null when it gives none.
C4_OneTaggedTablePerSheet ==
    (GrowthReturned /\ ~WorkbookMissing) =>
        LET workbook == TheWorkbook
        IN  /\ IsDict(growth_data)
            /\ Len(growth_data.items) = Len(workbook)
            /\ \A j \in 1..Len(workbook) :
                LET sheet == workbook[j]
                    table == growth_data.items[j]
                IN  /\ table.key = sheet.name
                    /\ Len(table.val) = Len(sheet.rows)
                    /\ \A r \in 1..Len(sheet.rows) :
                        /\ table.val[r].weight = sheet.rows[r].weight
                        /\ table.val[r].school = sheet.name
                        /\ table.val[r].EC =
                             IF \E i \in 1..Len(SCHOOL_EC.items) :
                                    SCHOOL_EC.items[i].key = sheet.name
                             THEN Lookup(SCHOOL_EC, sheet.name)
                             ELSE None

\* C4 witness: a loaded sheet that is no configured school, with a row whose
\* concentration is null
C4_Witness ==
    /\ GrowthReturned
    /\ IsDict(growth_data)
    /\ \E j \in 1..Len(growth_data.items) :
        /\ growth_data.items[j].key \notin SchoolKeys(SCHOOL_EC)
        /\ growth_data.items[j].val # <<>>
        /\ growth_data.items[j].val[1].EC = None

\* the records of the workbook whose sheet is configured with concentration c
RecordsAt(sheets, school_ec, c) ==
    {<<j, r>> \in (1..Len(sheets)) \X (1..CountRows(sheets)) :
        /\ r <= Len(sheets[j].rows)
        /\ DictGet(school_ec, sheets[j].name) = Float(c)}

RECURSIVE TotalOf(_, _)
TotalOf(sheets, records) ==
    IF records = {} THEN 0
    ELSE LET jr == CHOOSE x \in records : TRUE
         IN  sheets[jr[1]].rows[jr[2]].weight + TotalOf(sheets, records \ {jr})

Concentrations(school_ec) == {school_ec.items[i].val.v : i \in 1..Len(school_ec.items)}

ScenarioWorkbook ==
    <<[name |-> xlsx_name,
       body |-> Xlsx(<<[name |-> GroupA, rows |-> <<[weight |-> 1], [weight |-> 3]>>],
                       [name |-> GroupB, rows |-> <<[weight |-> 5]>>],
                       [name |-> GroupC, rows |-> <<[weight |-> 7]>>]>>)]>>

\* C5: the mean reported for a concentration is the total weight of all the
\* records tagged with it, across the groups that share it, over their number;
\* the best concentration has the largest mean and comes first among those
\* that tie; the scenario gives {1.0: 2.0, 2.0: 6.0} and best 2.0.
C5_PooledMeans ==
    pc \in {"done", "crashed"} =>
        LET sheets == dir[1].body.sheets
            pool(c) == RecordsAt(sheets, ScenarioEC, c)
        IN  /\ {ec_weight[i].EC : i \in 1..Len(ec_weight)} =
                   {c \in Concentrations(ScenarioEC) : pool(c) # {}}
            /\ \A i, k \in 1..Len(ec_weight) : i < k => ec_weight[i].EC < ec_weight[k].EC
            /\ \A i \in 1..Len(ec_weight) :
                 ec_weight[i].mean.num * Cardinality(pool(ec_weight[i].EC)) =
                     TotalOf(sheets, pool(ec_weight[i].EC)) * ec_weight[i].mean.den
            /\ pc = "done" =>
                 \E i \in 1..Len(ec_weight) :
                     /\ best_ec = Float(ec_weight[i].EC)
                     /\ \A k \in 1..Len(ec_weight) :
                          ec_weight[k].mean.num * ec_weight[i].mean.den
                              <= ec_weight[i].mean.num * ec_weight[k].mean.den
                     /\ \A k \in 1..(i - 1) :
                          ec_weight[k].mean.num * ec_weight[i].mean.den
                              < ec_weight[i].mean.num * ec_weight[k].mean.den
            /\ dir = ScenarioWorkbook =>
                 /\ ec_weight = <<[EC |-> 1, mean |-> [num |-> 2, den |-> 1]],
                                  [EC |-> 2, mean |-> [num |-> 6, den |-> 1]]>>
                 /\ best_ec = Float(2)

\* C5 witness: the scenario's workbook has been loaded and aggregated
C5_Witness == pc = "done" /\ dir = ScenarioWorkbook /\ ec_weight # <<>>

RECURSIVE WeightedSum(_, _)
WeightedSum(means, rows) ==
    IF means = <<>> THEN 0
    ELSE (Len(RowsOf(rows, Head(means).EC)) * Head(means).mean.num) \div Head(means).mean.den
         + WeightedSum(Tail(means), rows)

\* C6: the condition means conserve the total weight: the sum over the
\* reported concentrations of count times mean is the total fresh weight of
\* all the loaded growth records, those of unconfigured sheets included.
C6_MeansConserveWeight ==
    pc = "done" =>
        WeightedSum(ec_weight, concat(growth_data.items)) =
            SumWeight(concat(growth_data.items))

Occurrences(d, k) == Cardinality({i \in 1..Len(d.items) : d.items[i].key = k})

\* C7: whenever both datasets are loaded, every configured school has exactly
\* one environment table and exactly one growth table, so the lookups of the
\* rendering are defined.
C7_EveryGroupLoaded ==
    (IsDict(env_data) /\ IsDict(growth_data)) =>
        \A school \in SchoolKeys(SCHOOL_EC) :
            /\ Occurrences(env_data, school) = 1
            /\ Occurrences(growth_data, school) = 1

\* C8: a loader returns None exactly when a file it needs is not found, so a
\* found file without rows or sheets gives a value that is not None, and the
\* script halts exactly on None.
C8_FailureIsNotEmpty ==
    /\ EnvReturned => (env_data = None <=> EnvFileMissing)
    /\ GrowthReturned => (growth_data = None <=> WorkbookMissing)
    /\ pc \notin {"setup", "load_env", "load_growth", "check"} =>
           (pc = "stopped" <=> (env_data = None \/ growth_data = None))

\* C8 witness: the workbook was found and holds no sheet, the growth data is
\* the empty dict and the script went on to the title
C8_Witness ==
    /\ runs = 1
    /\ pc = "title"
    /\ growth_data = Dict(<<>>)
    /\ IsDict(env_data)

MatchingEntries ==
    {i \in 1..Len(dir) :
        \/ NFC(dir[i].name) = NFC(target_name)
        \/ NFD(dir[i].name) = NFD(target_name)}

\* C10: find_file_by_name returns an entry only if its name equals the target
\* in composed or in decomposed form, returns None exactly when no entry does,
\* and returns the first such entry of the iteration.
C10_ExactFirstMatch ==
    pc = "returned" =>
        /\ found.at = 0 <=> MatchingEntries = {}
        /\ found.at # 0 =>
            /\ found.at \in MatchingEntries
            /\ \A i \in MatchingEntries : found.at <= i

\* C10 witness: two entries match the target and the first one is returned
C10_Witness ==
    /\ pc = "returned"
    /\ Cardinality(MatchingEntries) >= 2
    /\ found.at = 1
    /\ dir[1].name # target_name

====
